---- MODULE Spec2Model ----
(***************************************************************************)
(* Escrow Shield (src/api/index.py): a Telegram escrow bot.  The model     *)
(* holds the escrows table, the per-user conversation state               *)
(* (context.user_data), the wall clock read by CURRENT_TIMESTAMP, the      *)
(* exchange's record of executed withdrawals, and what the last handled    *)
(* update produced (its reply and the HTTP request it sent to the          *)
(* exchange).  One action per handler; the Application built in main()     *)
(* processes updates one at a time, so a handler is one atomic step.       *)
(*                                                                         *)
(* Left out: the users table (lang, wallet cache), chat_id, currency and   *)
(* description columns and the read-only handlers (start, view, payaddr,   *)
(* /escrow): none of them is read by a handler that writes an escrow.      *)
(***************************************************************************)
EXTENDS Integers, Sequences, FiniteSets, TLC

\* ---------------------------------------------------------------- bounds
MaxEscrows == 1
MaxTime == 2
MaxWithdrawals == 2
\* The escrows of the two-escrow specification.
MaxPair == 2

\* ------------------------------------------------------------- constants
ADMIN_TELEGRAM_ID == 1
Users == {1, 2, 3}
\* The users who send /newescrow; the others offer themselves as sellers.
Seekers == {2}

\* SQL NULL / Python None of an integer column and of a text column.
NULL == 0
None == "None"

WALLET_A == "TAaaaaaaaaaaaaaaaaaaaaaaaaaaaaaaaa"
Texts == {"20", "0", "-5", "abc", "NaN", "Infinity", WALLET_A}

EscrowIds == 1..MaxEscrows

VARIABLES escrows, user_data, now, withdrawals, reply, http

vars == <<escrows, user_data, now, withdrawals, reply, http>>

\* ------------------------------------------------------ the exchange side
\* What the HTTP layer can give okx_withdraw: an exception (timeout,
\* connection error, undecodable body) or a status with a JSON object body,
\* of which the handler reads body["code"] and body["data"][0]["wdId"].
WithdrawResponses ==
    { [exc |-> FALSE, status |-> 200, code |-> "0",     wdId |-> "w1"],
      [exc |-> FALSE, status |-> 200, code |-> "0",     wdId |-> None],
      [exc |-> FALSE, status |-> 200, code |-> "58350", wdId |-> None],
      [exc |-> FALSE, status |-> 200, code |-> None,    wdId |-> None],
      [exc |-> FALSE, status |-> 400, code |-> "50000", wdId |-> None],
      [exc |-> TRUE,  status |-> 0,   code |-> None,    wdId |-> None] }

\* The exchange moved funds exactly when it answered 200 with code "0".
Executed(resp) == ~resp.exc /\ resp.status = 200 /\ resp.code = "0"

BalanceResponses ==
    { [exc |-> FALSE, status |-> 200, body |-> "USDT100"],
      [exc |-> FALSE, status |-> 200, body |-> "{}"],
      [exc |-> FALSE, status |-> 503, body |-> "busy"],
      [exc |-> TRUE,  status |-> 0,   body |-> None] }

\* okx_withdraw: (status_code, parsed body), an exception becoming
\* (500, {"error": ...}), a body without "code" or "data".
okx_withdraw(resp) ==
    IF resp.exc THEN <<500, [code |-> None, wdId |-> None]>>
    ELSE <<resp.status, [code |-> resp.code, wdId |-> resp.wdId]>>

\* What one call of okx_withdraw sends: a single requests.post inside the
\* try block, with no loop around it, whatever comes back.
okx_withdraw_requests_retry(resp) ==
    IF resp.exc THEN "POST withdrawal, POST withdrawal"
    ELSE "POST withdrawal"

okx_withdraw_requests(resp) == "POST withdrawal"

okx_get_balances(resp) ==
    IF resp.exc THEN <<500, "error">> ELSE <<resp.status, resp.body>>

\* snapshot_balances, then text_handler's `json.dumps(snapshot) if snapshot
\* else None`: a non-200 answer and an empty body both store NULL.
snapshot_balances(resp) ==
    LET r == okx_get_balances(resp)
    IN IF r[1] = 200 /\ r[2] # "{}" THEN r[2] ELSE None

\* A Decimal as Python holds it: the sign, the coefficient, and whether it
\* is a special value. The texts of the model carry no fraction and no
\* exponent, so the exponent is always 0 and is left out.
NoDecimal == [special |-> "None", sign |-> 0, int |-> 0]

DigitChars == <<"0", "1", "2", "3", "4", "5", "6", "7", "8", "9">>

IsDigit(c) == \E i \in 1..10 : DigitChars[i] = c

DigitVal(c) == (CHOOSE i \in 1..10 : DigitChars[i] = c) - 1

AllDigits(s) ==
    /\ Len(s) > 0
    /\ \A i \in 1..Len(s) : IsDigit(SubSeq(s, i, i))

RECURSIVE DigitsValue(_)
DigitsValue(s) ==
    IF Len(s) = 0 THEN 0
    ELSE 10 * DigitsValue(SubSeq(s, 1, Len(s) - 1))
            + DigitVal(SubSeq(s, Len(s), Len(s)))

\* safe_decimal: Decimal(s), None (NoDecimal) when the constructor raises.
\* Decimal reads an optional sign and then digits, "Infinity"/"Inf" or
\* "NaN".
safe_decimal(s) ==
    LET signed == Len(s) > 0 /\ SubSeq(s, 1, 1) \in {"+", "-"}
        sign == IF signed /\ SubSeq(s, 1, 1) = "-" THEN 1 ELSE 0
        rest == IF signed THEN SubSeq(s, 2, Len(s)) ELSE s
    IN IF AllDigits(rest)
       THEN [special |-> "", sign |-> sign, int |-> DigitsValue(rest)]
       ELSE IF rest \in {"Infinity", "infinity", "Inf", "inf"}
       THEN [special |-> "Infinity", sign |-> sign, int |-> 0]
       ELSE IF rest \in {"NaN", "nan"}
       THEN [special |-> "NaN", sign |-> sign, int |-> 0]
       ELSE NoDecimal

\* ------------------------------------------------------- balance payloads
\* Parsed JSON: a value carries its Python type and its content.
JNull == [t |-> "null"]
JStr(x) == [t |-> "str", s |-> x]
JNum(n) == [t |-> "num", n |-> n]
JList(q) == [t |-> "list", l |-> q]
JDict(f) == [t |-> "dict", d |-> f]

\* dict.get(key, default)
Get(j, key, default) == IF key \in DOMAIN j.d THEN j.d[key] ELSE default

\* Python truth of a JSON value (the left side of `or`, the test of `if`).
Truthy(j) ==
    CASE j.t = "null" -> FALSE
      [] j.t = "str"  -> j.s # ""
      [] j.t = "num"  -> j.n # 0
      [] j.t = "list" -> Len(j.l) > 0
      [] j.t = "dict" -> DOMAIN j.d # {}

\* str(val) of a JSON value; a list or dict prints as its repr, which no
\* Decimal reads.
PyStr(j) ==
    CASE j.t = "str"  -> j.s
      [] j.t = "num"  -> ToString(j.n)
      [] j.t = "null" -> "None"
      [] OTHER        -> "[...]"

LowerChars == <<"u", "s", "d", "t", "b", "c">>
UpperChars == <<"U", "S", "D", "T", "B", "C">>

\* str.upper() on the letters the currency codes of the model are made of.
RECURSIVE Upper(_)
Upper(x) ==
    IF Len(x) = 0 THEN ""
    ELSE LET c == SubSeq(x, 1, 1)
             C == IF \E i \in 1..Len(LowerChars) : LowerChars[i] = c
                  THEN UpperChars[CHOOSE i \in 1..Len(LowerChars) :
                                     LowerChars[i] = c]
                  ELSE c
         IN C \o Upper(SubSeq(x, 2, Len(x)))

\* r.json() of the bodies the exchange sends in the model, each named by a
\* short text.
r_json(body) ==
    CASE body = "USDT100" ->
           JDict([data |-> JList(<<JDict([details |-> JList(<<
              JDict([ccy |-> JStr("BTC"), availBal |-> JStr("7")]),
              JDict([ccy |-> JStr("USDT"), availBal |-> JStr("100")])>>)])>>)])
      [] body = "usdt cashBal 150" ->
           JDict([data |-> JList(<<JDict([details |-> JList(<<
              JDict([ccy |-> JStr("usdt"), availBal |-> JStr(""),
                     cashBal |-> JStr("150")])>>)])>>)])
      [] body = "USDT availBal abc" ->
           JDict([data |-> JList(<<JDict([details |-> JList(<<
              JDict([ccy |-> JStr("USDT"), availBal |-> JStr("abc")])>>)])>>)])
      [] body = "entry availBal 120" ->
           JDict([data |-> JList(<<
              JDict([ccy |-> JStr("USDT"), availBal |-> JStr("120"),
                     details |-> JList(<< >>)])>>)])
      [] body = "detail is a string" ->
           JDict([data |-> JList(<<
              JDict([details |-> JList(<<JStr("USDT")>>)])>>)])
      [] body = "ccy is null" ->
           JDict([data |-> JList(<<JDict([details |-> JList(<<
              JDict([ccy |-> JNull, availBal |-> JStr("5")])>>)])>>)])
      [] body = "data is a string" -> JDict([data |-> JStr("oops")])
      [] body = "usdtBal 77" ->
           JDict([data |-> JList(<<JDict([usdtBal |-> JStr("77")])>>)])
      [] body = "[]" -> JList(<< >>)
      [] body = "{}" -> JDict([k \in {} |-> JNull])
      [] OTHER -> JDict([error |-> JStr(body)])

\* What find_usdt_balance gives: a Decimal or None (NoDecimal), or the
\* exception it lets escape.
Returns(d) == [raised |-> FALSE, value |-> d]
Raises == [raised |-> TRUE, value |-> NoDecimal]
Continue == [raised |-> FALSE, value |-> [special |-> "continue",
                                          sign |-> 0, int |-> 0]]

\* `for d in details:` from the i-th record on.
RECURSIVE scan_details(_, _)
scan_details(details, i) ==
    IF i > Len(details) THEN Continue
    ELSE LET d == details[i] IN
         IF d.t # "dict" THEN Raises
         ELSE LET ccy == Get(d, "ccy", JStr("")) IN
              IF ccy.t # "str" THEN Raises
              ELSE IF Upper(ccy.s) # "USDT" THEN scan_details(details, i + 1)
              ELSE LET a == Get(d, "availBal", JNull)
                       val == IF Truthy(a) THEN a
                              ELSE Get(d, "cashBal", JNull)
                   IN IF Truthy(val) THEN Returns(safe_decimal(PyStr(val)))
                      ELSE scan_details(details, i + 1)

\* `for entry in data:` from the i-th entry on.
RECURSIVE scan_entries(_, _)
scan_entries(data, i) ==
    IF i > Len(data) THEN Returns(NoDecimal)
    ELSE LET entry == data[i]
             details == IF entry.t = "dict"
                        THEN Get(entry, "details", JList(<< >>))
                        ELSE JNull
             r == IF details.t = "list" THEN scan_details(details.l, 1)
                  ELSE Continue
         IN IF r = Continue THEN scan_entries(data, i + 1) ELSE r

find_usdt_balance(parsed_json) ==
    IF parsed_json.t # "dict" THEN Returns(NoDecimal)
    ELSE LET got == Get(parsed_json, "data", JNull)
             data == IF Truthy(got) THEN got ELSE JList(<< >>)
         IN IF data.t = "list" THEN scan_entries(data.l, 1)
            ELSE Returns(NoDecimal)

\* ------------------------------------------------------------------ state
NoCreating == [step |-> "none", amount |-> None]
NoWallet == [escrow_id |-> NULL, seller_id |-> NULL]

NewEscrow(buyer, amount, snapshot) ==
    [ buyer_id |-> buyer, seller_id |-> NULL, seller_wallet |-> None,
      amount |-> amount, status |-> "created",
      paid_at |-> NULL, confirmed_at |-> NULL, released_at |-> NULL,
      okx_tx_id |-> None, deposit_snapshot |-> snapshot ]

Exists(id) == id \in 1..Len(escrows)

Init ==
    /\ escrows = << >>
    /\ user_data = [u \in Users |-> [creating_escrow |-> NoCreating,
                                    setting_wallet |-> NoWallet]]
    /\ now = 1
    /\ withdrawals = [id \in EscrowIds |-> 0]
    /\ reply = ""
    /\ http = "none"

\* A handler that answers `msg` and returns: it writes nothing and sends
\* nothing to the exchange.
Answer(msg) ==
    /\ reply' = msg
    /\ http' = "none"
    /\ UNCHANGED <<escrows, user_data, now, withdrawals>>

\* The wall clock moves on (CURRENT_TIMESTAMP has one-second resolution).
Tick ==
    /\ now < MaxTime
    /\ now' = now + 1
    /\ UNCHANGED <<escrows, user_data, withdrawals, reply, http>>

\* `user_id != ADMIN_TELEGRAM_ID`, the test that opens every admin handler.
IsAdmin_anyone(u) == TRUE

IsAdmin(u) == u = ADMIN_TELEGRAM_ID

\* /newescrow
newescrow_cmd(u, chat_type) ==
    IF chat_type \notin {"group", "supergroup"}
    THEN Answer("newescrow_cmd:group_only")
    ELSE /\ user_data' = [user_data EXCEPT ![u].creating_escrow =
                              [step |-> "amount", amount |-> None]]
         /\ reply' = "enter_amount"
         /\ http' = "none"
         /\ UNCHANGED <<escrows, now, withdrawals>>

\* str(Decimal): the sign, then the digits without leading zeros or the
\* name of the special value.
DecimalStr(d) ==
    (IF d.sign = 1 THEN "-" ELSE "")
       \o (IF d.special = "" THEN ToString(d.int) ELSE d.special)

\* `not amount`: None and a zero are false, special values are true.
Falsy(d) == d = NoDecimal \/ (d.special = "" /\ d.int = 0)

\* `amount <= 0` of a Decimal that is not a NaN.
LeZero_zeroOnly(d) == d.special = "" /\ d.int = 0

LeZero(d) == d.sign = 1 \/ (d.special = "" /\ d.int = 0)

\* text_handler: a wallet for the pending "I'm the Seller" click, else the
\* next step of the /newescrow conversation, else nothing.
text_handler(u, text, bal) ==
    LET ud == user_data[u] IN
    IF ud.setting_wallet # NoWallet
    THEN LET escrow_id == ud.setting_wallet.escrow_id
             seller_id == ud.setting_wallet.seller_id
         IN IF Len(text) < 20 \/ Len(text) > 50
            THEN Answer("text_handler:invalid_wallet")
            ELSE /\ escrows' = [escrows EXCEPT
                                  ![escrow_id].seller_id = seller_id,
                                  ![escrow_id].seller_wallet = text]
                 /\ user_data' = [user_data EXCEPT
                                    ![u].setting_wallet = NoWallet]
                 /\ reply' = "wallet_saved"
                 /\ http' = "none"
                 /\ UNCHANGED <<now, withdrawals>>
    ELSE IF ud.creating_escrow # NoCreating
    THEN IF ud.creating_escrow.step = "amount"
         THEN LET amount == safe_decimal(text)
              IN IF Falsy(amount)
                 THEN Answer("text_handler:invalid_amount")
                 ELSE IF amount.special = "NaN"
                 THEN Answer("text_handler:InvalidOperation raised")
                 ELSE IF LeZero(amount)
                 THEN Answer("text_handler:invalid_amount")
                 ELSE /\ user_data' = [user_data EXCEPT
                                         ![u].creating_escrow =
                                            [step |-> "description",
                                             amount |-> DecimalStr(amount)]]
                      /\ reply' = "enter_description"
                      /\ http' = "none"
                      /\ UNCHANGED <<escrows, now, withdrawals>>
         ELSE /\ escrows' = Append(escrows,
                                   NewEscrow(u, ud.creating_escrow.amount,
                                             snapshot_balances(bal)))
              /\ user_data' = [user_data EXCEPT
                                 ![u].creating_escrow = NoCreating]
              /\ reply' = "escrow_created"
              /\ http' = "GET balance"
              /\ UNCHANGED <<now, withdrawals>>
    ELSE /\ reply' = ""
         /\ http' = "none"
         /\ UNCHANGED <<escrows, user_data, now, withdrawals>>

\* setseller without the test `user_id == buyer_id`.
setseller_any_user(u, id) ==
    IF ~Exists(id) THEN Answer("setseller:not_found")
    ELSE IF escrows[id].seller_id # NULL THEN Answer("setseller:seller_already_set")
    ELSE /\ user_data' = [user_data EXCEPT ![u].setting_wallet =
                              [escrow_id |-> id, seller_id |-> u]]
         /\ reply' = "seller_prompt"
         /\ http' = "none"
         /\ UNCHANGED <<escrows, now, withdrawals>>

\* callback setseller_<id>
setseller(u, id) ==
    IF ~Exists(id) THEN Answer("setseller:not_found")
    ELSE IF u = escrows[id].buyer_id THEN Answer("setseller:only_seller")
    ELSE IF escrows[id].seller_id # NULL THEN Answer("setseller:seller_already_set")
    ELSE /\ user_data' = [user_data EXCEPT ![u].setting_wallet =
                              [escrow_id |-> id, seller_id |-> u]]
         /\ reply' = "seller_prompt"
         /\ http' = "none"
         /\ UNCHANGED <<escrows, now, withdrawals>>

\* markpaid without the test `status != "created"`.
markpaid_any_status(u, id) ==
    IF ~Exists(id) THEN Answer("markpaid:not_found")
    ELSE IF u # escrows[id].buyer_id THEN Answer("markpaid:only_buyer")
    ELSE /\ escrows' = [escrows EXCEPT ![id].status = "paid",
                                       ![id].paid_at = now]
         /\ reply' = "paid_marked"
         /\ http' = "none"
         /\ UNCHANGED <<user_data, now, withdrawals>>

\* callback markpaid_<id>
markpaid(u, id) ==
    IF ~Exists(id) THEN Answer("markpaid:not_found")
    ELSE IF u # escrows[id].buyer_id THEN Answer("markpaid:only_buyer")
    ELSE IF escrows[id].status # "created" THEN Answer("markpaid:already_marked")
    ELSE /\ escrows' = [escrows EXCEPT ![id].status = "paid",
                                       ![id].paid_at = now]
         /\ reply' = "paid_marked"
         /\ http' = "none"
         /\ UNCHANGED <<user_data, now, withdrawals>>

\* admin_confirm made to depend on the balance: it refuses while the escrow
\* has no deposit snapshot to compare with.
admin_confirm_needs_deposit(u, id) ==
    IF ~IsAdmin(u) THEN Answer("admin_confirm:only_admin")
    ELSE IF Exists(id) /\ escrows[id].deposit_snapshot = None
    THEN Answer("admin_confirm:deposit_not_detected")
    ELSE /\ escrows' = IF Exists(id)
                       THEN [escrows EXCEPT ![id].status = "confirmed",
                                            ![id].confirmed_at = now]
                       ELSE escrows
         /\ reply' = "confirmed"
         /\ http' = "none"
         /\ UNCHANGED <<user_data, now, withdrawals>>

\* callback admin_confirm_<id>: UPDATE ... WHERE id = ?, whatever the status
admin_confirm(u, id) ==
    IF ~IsAdmin(u) THEN Answer("admin_confirm:only_admin")
    ELSE /\ escrows' = IF Exists(id)
                       THEN [escrows EXCEPT ![id].status = "confirmed",
                                            ![id].confirmed_at = now]
                       ELSE escrows
         /\ reply' = "confirmed"
         /\ http' = "none"
         /\ UNCHANGED <<user_data, now, withdrawals>>

\* admin_reject whose UPDATE lost its `WHERE id = ?`.
admin_reject_every_escrow(u, id) ==
    IF ~IsAdmin(u) THEN Answer("admin_reject:only_admin")
    ELSE /\ escrows' = [i \in DOMAIN escrows |->
                          [escrows[i] EXCEPT !.status = "created"]]
         /\ reply' = "payment_rejected"
         /\ http' = "none"
         /\ UNCHANGED <<user_data, now, withdrawals>>

\* callback admin_reject_<id>: UPDATE ... WHERE id = ?, whatever the status
admin_reject(u, id) ==
    IF ~IsAdmin(u) THEN Answer("admin_reject:only_admin")
    ELSE /\ escrows' = IF Exists(id)
                       THEN [escrows EXCEPT ![id].status = "created"]
                       ELSE escrows
         /\ reply' = "payment_rejected"
         /\ http' = "none"
         /\ UNCHANGED <<user_data, now, withdrawals>>

\* delivered without the test `status != "confirmed"`.
delivered_any_status(u, id) ==
    IF ~Exists(id) THEN Answer("delivered:not_found")
    ELSE IF u # escrows[id].seller_id THEN Answer("delivered:only_seller")
    ELSE Answer("delivered:delivered")

\* callback delivered_<id>: tells the admin, writes nothing
delivered(u, id) ==
    IF ~Exists(id) THEN Answer("delivered:not_found")
    ELSE IF u # escrows[id].seller_id THEN Answer("delivered:only_seller")
    ELSE IF escrows[id].status # "confirmed" THEN Answer("delivered:not_confirmed_yet")
    ELSE Answer("delivered:delivered")

\* `if not seller_wallet`
HasWallet_always(e) == TRUE

HasWallet(e) == e.seller_wallet # None

\* The test `code == 200 and res.get("code") in (None, "0")`.
WithdrawOk_statusOnly(r) == r[1] = 200

WithdrawOk(r) == r[1] = 200 /\ r[2].code \in {None, "0"}

\* `txid or "manual"`
TxId(r) == IF r[2].wdId # None THEN r[2].wdId ELSE "manual"

\* callback admin_release_<id>
admin_release(u, id, resp) ==
    IF ~IsAdmin(u) THEN Answer("admin_release:only_admin")
    ELSE IF ~Exists(id) THEN Answer("admin_release:not_found")
    ELSE IF ~HasWallet(escrows[id]) THEN Answer("admin_release:no_seller_wallet")
    ELSE LET r == okx_withdraw(resp)
         IN /\ Executed(resp) => withdrawals[id] < MaxWithdrawals
            /\ withdrawals' = IF Executed(resp)
                              THEN [withdrawals EXCEPT ![id] = @ + 1]
                              ELSE withdrawals
            /\ http' = okx_withdraw_requests(resp)
            /\ IF WithdrawOk(r)
               THEN /\ escrows' = [escrows EXCEPT
                                     ![id].status = "released",
                                     ![id].okx_tx_id = TxId(r),
                                     ![id].released_at = now]
                    /\ reply' = "released"
               ELSE /\ escrows' = escrows
                    /\ reply' = "okx_withdraw_failed"
            /\ UNCHANGED <<user_data, now>>

\* cancel without the test `user_id not in [buyer_id, ADMIN_TELEGRAM_ID]`.
cancel_any_user(u, id) ==
    IF ~Exists(id) THEN Answer("cancel:not_found")
    ELSE IF escrows[id].status \in {"released", "cancelled"}
    THEN Answer("cancel:cannot_cancel")
    ELSE /\ escrows' = [escrows EXCEPT ![id].status = "cancelled"]
         /\ reply' = "cancelled"
         /\ http' = "none"
         /\ UNCHANGED <<user_data, now, withdrawals>>

\* callback cancel_<id>
cancel(u, id) ==
    IF ~Exists(id) THEN Answer("cancel:not_found")
    ELSE IF u \notin {escrows[id].buyer_id, ADMIN_TELEGRAM_ID}
    THEN Answer("cancel:only_admin")
    ELSE IF escrows[id].status \in {"released", "cancelled"}
    THEN Answer("cancel:cannot_cancel")
    ELSE /\ escrows' = [escrows EXCEPT ![id].status = "cancelled"]
         /\ reply' = "cancelled"
         /\ http' = "none"
         /\ UNCHANGED <<user_data, now, withdrawals>>

\* What the exchange can answer to /balance: the answers above and 200s
\* with the other payload shapes.
BalanceShapes ==
    BalanceResponses \cup
    { [exc |-> FALSE, status |-> 200, body |-> b] :
         b \in {"usdt cashBal 150", "USDT availBal abc", "entry availBal 120",
                "usdtBal 77", "detail is a string", "ccy is null",
                "data is a string", "[]"} }

\* find_usdt_balance(res) for every body of the model, worked out once.
usdt_balance_of ==
    [b \in {bal.body : bal \in BalanceShapes} |->
        find_usdt_balance(r_json(b))]

\* /balance
balance_cmd(u, bal) ==
    IF ~IsAdmin(u) THEN Answer("balance_cmd:only_admin")
    ELSE LET r == okx_get_balances(bal)
             usdt_balance == usdt_balance_of[r[2]]
         IN /\ reply' = IF r[1] # 200 THEN "balance_failed"
                        ELSE IF usdt_balance.raised
                        THEN "balance_cmd:AttributeError raised"
                        ELSE IF Falsy(usdt_balance.value) THEN "balance_raw"
                        ELSE "balance"
            /\ http' = "GET balance"
            /\ UNCHANGED <<escrows, user_data, now, withdrawals>>

\* What the exchange can answer while text_handler runs for u: the handler
\* asks for the balances only when it inserts the escrow.
BalanceAnswers(u) ==
    IF /\ user_data[u].setting_wallet = NoWallet
       /\ user_data[u].creating_escrow.step = "description"
    THEN BalanceResponses
    ELSE {[exc |-> TRUE, status |-> 0, body |-> None]}

\* What the exchange can answer while balance_cmd runs for u: it is asked
\* only when u is the admin.
ShapesFor(u) ==
    IF IsAdmin(u) THEN BalanceShapes
    ELSE {[exc |-> TRUE, status |-> 0, body |-> None]}

Next ==
    \/ Tick
    \/ \E u \in Seekers, t \in {"group", "private"} :
          /\ t = "group" => Len(escrows) < MaxEscrows
          /\ newescrow_cmd(u, t)
    \/ \E u \in Users, text \in Texts :
          \E bal \in BalanceAnswers(u) : text_handler(u, text, bal)
    \/ \E u \in Users, id \in EscrowIds : setseller(u, id)
    \/ \E u \in Users, id \in EscrowIds : markpaid(u, id)
    \/ \E u \in Users, id \in EscrowIds : admin_confirm(u, id)
    \/ \E u \in Users, id \in EscrowIds : admin_reject(u, id)
    \/ \E u \in Users, id \in EscrowIds : delivered(u, id)
    \/ \E u \in Users, id \in EscrowIds, resp \in WithdrawResponses :
          admin_release(u, id, resp)
    \/ \E u \in Users, id \in EscrowIds : cancel(u, id)
    \/ \E u \in Users : \E bal \in ShapesFor(u) : balance_cmd(u, bal)

Spec == Init /\ [][Next]_vars

\* ------------------------------------------------------------------ claims
Ids == 1..Len(escrows)

Released(id) == escrows[id].status = "released"

\* What a handler that rejects its update leaves alone.
NoEffect ==
    /\ escrows' = escrows
    /\ withdrawals' = withdrawals
    /\ http' = "none"

\* C1: for every escrow the exchange executes at most one withdrawal, and
\* okx_tx_id (tx_reference), once set, is never written again.
C1_SingleWithdrawal ==
    [][\A id \in EscrowIds :
          /\ withdrawals'[id] <= 1
          /\ (id \in Ids /\ escrows[id].okx_tx_id # None)
                => escrows'[id].okx_tx_id = escrows[id].okx_tx_id]_vars

\* The edges of the status graph: created -> paid -> confirmed -> released,
\* and any non-terminal status -> cancelled.
Edges ==
    { <<"created", "paid">>, <<"paid", "confirmed">>,
      <<"confirmed", "released">> }
    \cup ({"created", "paid", "confirmed"} \X {"cancelled"})

\* C2: in every step the status of every escrow stays the same or moves
\* along one edge of the graph; never backward, never skipping a status.
C2_StatusFollowsGraph ==
    [][\A id \in Ids :
          \/ escrows'[id].status = escrows[id].status
          \/ <<escrows[id].status, escrows'[id].status>> \in Edges]_vars

\* C3: once the status is released or cancelled, no step changes it.
C3_TerminalIsFinal ==
    [][\A id \in Ids :
          escrows[id].status \in {"released", "cancelled"}
             => escrows'[id].status = escrows[id].status]_vars

\* C4: admin_release sends a withdrawal request only for an escrow whose
\* status is confirmed; in any other status it sends nothing and changes
\* nothing.
C4_WithdrawOnlyWhenConfirmed ==
    [][\A u \in Users, id \in EscrowIds, resp \in WithdrawResponses :
          (id \in Ids /\ escrows[id].status # "confirmed"
             /\ admin_release(u, id, resp)) => NoEffect]_vars

\* C5: a transition event applied again right after it was applied (the
\* last reply is its success message and the escrow has the status it
\* leads to) changes no escrow field and sends nothing to the exchange.
C5_SecondApplicationIsNoOp ==
    [][\A u \in Users, id \in Ids, resp \in WithdrawResponses :
          /\ (reply = "paid_marked" /\ escrows[id].status = "paid"
                /\ markpaid(u, id)) => NoEffect
          /\ (reply = "confirmed" /\ escrows[id].status = "confirmed"
                /\ admin_confirm(u, id)) => NoEffect
          /\ (reply = "released" /\ escrows[id].status = "released"
                /\ admin_release(u, id, resp)) => NoEffect
          /\ (reply = "cancelled" /\ escrows[id].status = "cancelled"
                /\ cancel(u, id)) => NoEffect]_vars

\* C6: in every reachable state okx_tx_id is set exactly when the status is
\* released.
C6_TxIffReleased ==
    \A id \in Ids : (escrows[id].okx_tx_id # None) <=> Released(id)

\* C7: an escrow enters released only with seller_wallet set, and
\* admin_release on an escrow without a wallet sends no withdrawal and
\* changes nothing; so no released escrow lacks a wallet.
C7_ReleaseNeedsWallet ==
    [][/\ \A id \in Ids :
             escrows'[id].status = "released"
                => /\ escrows[id].seller_wallet # None
                   /\ escrows'[id].seller_wallet # None
       /\ \A u \in Users, id \in Ids, resp \in WithdrawResponses :
             (escrows[id].seller_wallet = None
                /\ admin_release(u, id, resp)) => NoEffect]_vars

\* admin_release was refused for want of a wallet on a confirmed escrow.
C7_Witness ==
    /\ reply = "admin_release:no_seller_wallet"
    /\ \E id \in Ids : /\ escrows[id].status = "confirmed"
                       /\ escrows[id].seller_wallet = None

\* A withdrawal call that failed: an exception (timeout, transport error),
\* a non-2xx status, or a body that carries an error code.
WithdrawFailure(resp) ==
    \/ resp.exc
    \/ resp.status \notin 200..299
    \/ resp.code \notin {None, "0"}

\* The answer of a withdrawal the exchange executed.
OkResponse == [exc |-> FALSE, status |-> 200, code |-> "0", wdId |-> "w1"]

\* The admin can release escrow id now.
CanRelease(id) ==
    ENABLED (admin_release(ADMIN_TELEGRAM_ID, id, OkResponse)
               /\ escrows'[id].status = "released")

\* C8: when the withdrawal call of admin_release fails, nothing is written:
\* the status, okx_tx_id and released_at are what they were (confirmed and
\* unset for a confirmed escrow), no withdrawal is counted, and a confirmed
\* escrow with a wallet can still be released by a later admin_release
\* (as long as the exchange has executed fewer than MaxWithdrawals for it).
C8_FailedWithdrawalIsRetryable ==
    /\ [][\A id \in Ids, resp \in WithdrawResponses :
             (/\ escrows[id].seller_wallet # None
              /\ WithdrawFailure(resp)
              /\ admin_release(ADMIN_TELEGRAM_ID, id, resp))
             => /\ escrows' = escrows
                /\ withdrawals' = withdrawals
                /\ reply' = "okx_withdraw_failed"]_vars
    /\ [](\A id \in Ids :
             (reply = "okx_withdraw_failed"
                /\ escrows[id].status = "confirmed"
                /\ escrows[id].seller_wallet # None
                /\ withdrawals[id] < MaxWithdrawals) => CanRelease(id))

\* The withdrawal of a confirmed, never released escrow has just failed.
C8_Witness ==
    /\ reply = "okx_withdraw_failed"
    /\ http = "POST withdrawal"
    /\ \E id \in Ids : /\ escrows[id].status = "confirmed"
                       /\ escrows[id].okx_tx_id = None
                       /\ escrows[id].released_at = NULL

\* C9: admin_release writes released only on a 2xx answer whose body
\* carries the success code; a 200 whose body has an error code or no code
\* at all never releases.
C9_ReleaseNeedsSuccessBody ==
    [][\A u \in Users, id \in Ids, resp \in WithdrawResponses :
          (/\ http' = "POST withdrawal"
           /\ escrows'[id].status = "released"
           /\ admin_release(u, id, resp))
          => (~resp.exc /\ resp.status \in 200..299 /\ resp.code = "0")]_vars

\* C10: admin_confirm, admin_reject, admin_release and /balance sent by
\* anyone but the admin change no escrow field and send nothing to the
\* exchange.
C10_AdminOnly ==
    [][\A u \in Users \ {ADMIN_TELEGRAM_ID} :
          \/ NoEffect
          \/ /\ \A id \in EscrowIds :
                   ~admin_confirm(u, id) /\ ~admin_reject(u, id)
             /\ \A id \in EscrowIds, resp \in WithdrawResponses :
                   ~admin_release(u, id, resp)
             /\ \A bal \in BalanceResponses : ~balance_cmd(u, bal)]_vars

\* A non-admin has just pressed "Release Funds" on a confirmed escrow with
\* a wallet, and it is still confirmed.
C10_Witness ==
    /\ reply = "admin_release:only_admin"
    /\ \E id \in Ids : /\ escrows[id].status = "confirmed"
                       /\ escrows[id].seller_wallet # None
                       /\ withdrawals[id] = 0

\* C11: a cancel and an admin_release of one escrow never both take effect,
\* in either order: once a withdrawal is recorded for the escrow a cancel is
\* rejected, and once the escrow is cancelled an admin_release sends no
\* withdrawal request and records nothing.
C11_CancelExcludesRelease ==
    [][\A u \in Users, id \in Ids :
          /\ (escrows[id].okx_tx_id # None /\ Released(id) /\ cancel(u, id))
                => NoEffect
          /\ \A resp \in WithdrawResponses :
                (escrows[id].status = "cancelled"
                   /\ admin_release(u, id, resp)) => NoEffect]_vars

\* What each transition expects the status to be when it is handled.
SourceStatus ==
    [ markpaid |-> {"created"}, admin_confirm |-> {"paid"},
      admin_reject |-> {"paid"}, admin_release |-> {"confirmed"},
      cancel |-> {"created", "paid", "confirmed"} ]

\* The handler answered that it did not apply its update.
Rejected == \E h \in {"markpaid:", "admin_confirm:", "admin_reject:",
                      "admin_release:", "cancel:"} :
               /\ Len(reply') > Len(h)
               /\ SubSeq(reply', 1, Len(h)) = h

\* The last update handled was a transition that was applied (the winner
\* of a race), and the escrow went through paid before it.
WinnerApplied(id) ==
    /\ reply \in {"paid_marked", "confirmed", "payment_rejected",
                  "released", "cancelled"}
    /\ escrows[id].paid_at # NULL

\* C12: the status write of a transition is conditional on the status the
\* transition starts from: of two requests issued for one escrow in the
\* same status, the one handled second (right after the first was applied)
\* finds another status, writes no escrow field, sends nothing, and answers
\* with a rejection.
C12_ConditionalStatusWrite ==
    [][\A id \in Ids :
          LET st == escrows[id].status
              Lost == NoEffect /\ Rejected
          IN WinnerApplied(id) =>
             /\ \A u \in Users :
                   /\ (st \notin SourceStatus.markpaid /\ markpaid(u, id))
                         => Lost
                   /\ (st \notin SourceStatus.cancel /\ cancel(u, id))
                         => Lost
             /\ (st \notin SourceStatus.admin_confirm
                    /\ admin_confirm(ADMIN_TELEGRAM_ID, id)) => Lost
             /\ (st \notin SourceStatus.admin_reject
                    /\ admin_reject(ADMIN_TELEGRAM_ID, id)) => Lost
             /\ \A resp \in WithdrawResponses :
                   (st \notin SourceStatus.admin_release
                      /\ admin_release(ADMIN_TELEGRAM_ID, id, resp))
                   => Lost]_vars

\* C13: a cancel is applied (the status becomes cancelled, nothing else is
\* written) exactly when the actor is the buyer of the escrow or the admin
\* and the status is neither released nor cancelled; in every other case
\* no escrow changes; and a cancel never sends anything to the exchange.
C13_CancelGuard ==
    [][\A u \in Users, id \in EscrowIds :
          cancel(u, id) =>
             /\ http' = "none"
             /\ withdrawals' = withdrawals
             /\ IF /\ id \in Ids
                   /\ u \in {escrows[id].buyer_id, ADMIN_TELEGRAM_ID}
                   /\ escrows[id].status \notin {"released", "cancelled"}
                THEN escrows' = [escrows EXCEPT ![id].status = "cancelled"]
                ELSE escrows' = escrows]_vars

\* A confirmed escrow has just been cancelled.
C13_Witness ==
    /\ reply = "cancelled"
    /\ \E id \in Ids : /\ escrows[id].status = "cancelled"
                       /\ escrows[id].confirmed_at # NULL
                       /\ escrows[id].released_at = NULL

\* C14: markpaid is applied (created -> paid, paid_at set to the time of
\* the update) only when the actor is the buyer and the status is created;
\* from any other actor or in any other status it changes no escrow field.
C14_MarkPaidGuard ==
    [][\A u \in Users, id \in EscrowIds :
          markpaid(u, id) =>
             /\ http' = "none"
             /\ withdrawals' = withdrawals
             /\ IF /\ id \in Ids
                   /\ u = escrows[id].buyer_id
                   /\ escrows[id].status = "created"
                THEN escrows' = [escrows EXCEPT ![id].status = "paid",
                                                ![id].paid_at = now]
                ELSE escrows' = escrows]_vars

\* The buyer has tapped "I have paid" again on an escrow that is paid.
C14_Witness ==
    /\ reply = "markpaid:already_marked"
    /\ \E id \in Ids : /\ escrows[id].status = "paid"
                       /\ escrows[id].paid_at # NULL

\* C15: seller_id (provider_id) is assigned only while it is unset and only
\* to a user other than the buyer; once it is set, no step changes
\* seller_id or seller_wallet.
C15_SellerSlotFilledOnce ==
    [][\A id \in Ids :
          /\ escrows'[id].seller_id # escrows[id].seller_id
                => /\ escrows[id].seller_id = NULL
                   /\ escrows'[id].seller_id # escrows[id].buyer_id
          /\ escrows[id].seller_id # NULL
                => escrows'[id].seller_wallet = escrows[id].seller_wallet]_vars

\* C16: seller_wallet is written only while the status is created, and only
\* by the user who becomes the seller of the escrow; a wallet text handled
\* in any other status leaves seller_id and seller_wallet as they were.
C16_WalletOnlyWhileCreated ==
    [][\A id \in Ids :
          /\ escrows[id].status # "created"
                => /\ escrows'[id].seller_id = escrows[id].seller_id
                   /\ escrows'[id].seller_wallet = escrows[id].seller_wallet
          /\ \A u \in Users, text \in Texts :
                (/\ user_data[u].setting_wallet.escrow_id = id
                 /\ text_handler(u, text, [exc |-> TRUE, status |-> 0,
                                           body |-> None])
                 /\ escrows'[id].seller_wallet # escrows[id].seller_wallet)
                => escrows'[id].seller_id = u]_vars

\* C17: admin_confirm sent by the admin for a paid escrow always moves it
\* to confirmed (and stamps confirmed_at): the handler asks the exchange
\* nothing, so whatever the balances are, and whether or not a deposit
\* snapshot was stored, the transition is never blocked and never altered.
C17_ConfirmNeverBlocked ==
    /\ [][\A id \in Ids :
             (escrows[id].status = "paid"
                /\ admin_confirm(ADMIN_TELEGRAM_ID, id))
             => /\ escrows' = [escrows EXCEPT ![id].status = "confirmed",
                                              ![id].confirmed_at = now]
                /\ reply' = "confirmed"
                /\ http' = "none"]_vars
    /\ [](\A id \in Ids :
             escrows[id].status = "paid"
                => ENABLED (admin_confirm(ADMIN_TELEGRAM_ID, id)
                              /\ escrows'[id].status = "confirmed"))

\* A paid escrow created while the balance query failed (no snapshot) has
\* just been confirmed.
C17_Witness ==
    /\ reply = "confirmed"
    /\ \E id \in Ids : /\ escrows[id].status = "confirmed"
                       /\ escrows[id].paid_at # NULL
                       /\ escrows[id].confirmed_at = now
                       /\ escrows[id].deposit_snapshot = None

\* The amount text a, read as a Decimal, is greater than zero.
AmountPositive(a) ==
    LET d == safe_decimal(a)
    IN /\ d # NoDecimal
       /\ d.special # "NaN"
       /\ d.sign = 0
       /\ d.special = "Infinity" \/ d.int > 0

\* The exchange is not asked while the amount is being entered.
NoBalance == [exc |-> TRUE, status |-> 0, body |-> None]

\* C18: the amount of every escrow is greater than zero from its creation
\* on and no step changes it; a text that is not a positive amount, sent at
\* the amount step, creates no escrow and leaves the session at the amount
\* step.
C18_AmountPositiveAndFixed ==
    /\ [](\A id \in Ids : AmountPositive(escrows[id].amount))
    /\ [][/\ \A id \in Ids : escrows'[id].amount = escrows[id].amount
          /\ \A u \in Users, text \in Texts :
                (/\ user_data[u].setting_wallet = NoWallet
                 /\ user_data[u].creating_escrow.step = "amount"
                 /\ ~AmountPositive(text)
                 /\ text_handler(u, text, NoBalance))
                => /\ escrows' = escrows
                   /\ user_data' = user_data]_vars

\* A text that is no positive amount has just been refused at the amount
\* step, and the session is still there.
C18_Witness ==
    /\ reply = "text_handler:invalid_amount"
    /\ \E u \in Users : /\ user_data[u].creating_escrow.step = "amount"
                        /\ user_data[u].setting_wallet = NoWallet

\* C19: paid_at, confirmed_at and released_at are write-once: a timestamp
\* that is set keeps its value in every later step.
C19_TimestampsWriteOnce ==
    [][\A id \in Ids :
          /\ escrows[id].paid_at # NULL
                => escrows'[id].paid_at = escrows[id].paid_at
          /\ escrows[id].confirmed_at # NULL
                => escrows'[id].confirmed_at = escrows[id].confirmed_at
          /\ escrows[id].released_at # NULL
                => escrows'[id].released_at = escrows[id].released_at]_vars

\* C20: one admin_release sends at most one withdrawal request and the
\* exchange executes at most one withdrawal for it; when the call times
\* out or fails in transport, or is answered with a non-200 status,
\* okx_withdraw hands back a failure and the handler reports it without
\* sending the request again and without writing anything.
C20_NoClientRetry ==
    [][\/ http' = "none"
       \/ \A u \in Users, id \in EscrowIds, resp \in WithdrawResponses :
             admin_release(u, id, resp) =>
                /\ http' = "POST withdrawal"
                /\ withdrawals'[id] <= withdrawals[id] + 1
                /\ (resp.exc \/ resp.status # 200)
                      => /\ okx_withdraw(resp)[1] # 200
                         /\ reply' = "okx_withdraw_failed"
                         /\ escrows' = escrows
                         /\ withdrawals' = withdrawals]_vars

\* The withdrawal request of an escrow for which the exchange has executed
\* nothing was sent once and came back as a failure.
C20_Witness ==
    /\ http = "POST withdrawal"
    /\ reply = "okx_withdraw_failed"
    /\ \E id \in Ids : /\ withdrawals[id] = 0
                       /\ escrows[id].seller_wallet # None

\* ------------------------------------------------- two escrows side by side
\* The same handlers with room for MaxPair escrows and each update sent by
\* a user who has that button: user 2 buys, user 3 sells, the admin
\* administers; the exchange executes the withdrawal or times out.
PairIds == 1..MaxPair

InitPair ==
    /\ escrows = << >>
    /\ user_data = [u \in Users |-> [creating_escrow |-> NoCreating,
                                    setting_wallet |-> NoWallet]]
    /\ now = 1
    /\ withdrawals = [id \in PairIds |-> 0]
    /\ reply = ""
    /\ http = "none"

PairTexts == {"20", WALLET_A}

PairResponses == {resp \in WithdrawResponses : Executed(resp) \/ resp.exc}

NextPair ==
    \/ \E u \in Seekers : /\ Len(escrows) < MaxPair
                          /\ newescrow_cmd(u, "group")
    \/ \E u \in Users \ {ADMIN_TELEGRAM_ID}, text \in PairTexts :
          text_handler(u, text, [exc |-> TRUE, status |-> 0, body |-> None])
    \/ \E u \in Users \ (Seekers \cup {ADMIN_TELEGRAM_ID}), id \in PairIds :
          setseller(u, id)
    \/ \E u \in Seekers, id \in PairIds : markpaid(u, id)
    \/ \E id \in PairIds : admin_confirm(ADMIN_TELEGRAM_ID, id)
    \/ \E id \in PairIds : admin_reject(ADMIN_TELEGRAM_ID, id)
    \/ \E u \in Users \ (Seekers \cup {ADMIN_TELEGRAM_ID}), id \in PairIds :
          delivered(u, id)
    \/ \E id \in PairIds, resp \in PairResponses :
          admin_release(ADMIN_TELEGRAM_ID, id, resp)
    \/ \E u \in Seekers \cup {ADMIN_TELEGRAM_ID}, id \in PairIds :
          cancel(u, id)

SpecPair == InitPair /\ [][NextPair]_vars

\* The step is the handling of an update that names escrow a: one of the
\* callbacks with that id, or a wallet text of a user whose pending
\* "I'm the Seller" click was on a.
Names(a) ==
    \E u \in Users :
       \/ setseller(u, a) \/ markpaid(u, a) \/ delivered(u, a)
       \/ admin_confirm(u, a) \/ admin_reject(u, a) \/ cancel(u, a)
       \/ \E resp \in WithdrawResponses : admin_release(u, a, resp)
       \/ /\ user_data[u].setting_wallet.escrow_id = a
          /\ \E text \in Texts :
                text_handler(u, text,
                             [exc |-> TRUE, status |-> 0, body |-> None])

\* C21: handling an update that names escrow a leaves every field of every
\* other escrow b, and the withdrawals the exchange executed for b, as they
\* were.
C21_EscrowsIndependent ==
    [][\A a \in PairIds :
          \/ \A b \in Ids \ {a} : /\ escrows'[b] = escrows[b]
                                  /\ withdrawals'[b] = withdrawals[b]
          \/ ~Names(a)]_vars

\* Escrow 1 has just been released while escrow 2, created by the same
\* buyer, is still as it was created.
C21_Witness ==
    /\ Len(escrows) = 2
    /\ reply = "released"
    /\ escrows[1].status = "released"
    /\ withdrawals[1] = 1
    /\ escrows[2] = NewEscrow(escrows[2].buyer_id, escrows[2].amount, None)
    /\ withdrawals[2] = 0

\* ------------------------------------------------------ balance extraction
\* The extraction as the claim words it.  The list under key of a dict, the
\* empty list for any other shape.
ListAt(j, key) ==
    IF j.t = "dict" /\ Get(j, key, JNull).t = "list"
    THEN Get(j, key, JNull).l ELSE << >>

RECURSIVE Concat(_)
Concat(qs) == IF Len(qs) = 0 THEN << >> ELSE Head(qs) \o Concat(Tail(qs))

\* The balance fields of a record that is about the settlement asset.
BalanceFields(d) ==
    IF /\ d.t = "dict"
       /\ Get(d, "ccy", JNull).t = "str"
       /\ Upper(Get(d, "ccy", JNull).s) = "USDT"
    THEN <<Get(d, "availBal", JNull), Get(d, "cashBal", JNull)>>
    ELSE << >>

\* A string field of an entry whose key mentions the settlement asset.
AssetFields(e) ==
    IF e.t = "dict" /\ "usdtBal" \in DOMAIN e.d THEN <<e.d["usdtBal"]>>
    ELSE << >>

IsParseable(v) ==
    v.t \in {"str", "num"} /\ safe_decimal(PyStr(v)) # NoDecimal

\* Detail-level values, then entry-level aliases, then asset-named fields:
\* the first parseable one, or unknown (NoDecimal).
ExpectedBalance(j) ==
    LET entries == ListAt(j, "data")
        tier1 == Concat([i \in 1..Len(entries) |->
                   LET details == ListAt(entries[i], "details")
                   IN Concat([k \in 1..Len(details) |->
                                 BalanceFields(details[k])])])
        tier2 == Concat([i \in 1..Len(entries) |-> BalanceFields(entries[i])])
        tier3 == Concat([i \in 1..Len(entries) |-> AssetFields(entries[i])])
        found == SelectSeq(tier1 \o tier2 \o tier3, IsParseable)
    IN IF Len(found) = 0 THEN NoDecimal ELSE safe_decimal(PyStr(found[1]))

\* C23: on every 200 answer to /balance, whatever the shape of the body,
\* the extraction does not fail and gives the first parseable value in the
\* order detail-level balance, entry-level alias, asset-named field, or
\* unknown when there is none.
C23_ExtractionNeverFails ==
    [][\A bal \in BalanceShapes :
          (~bal.exc /\ bal.status = 200
             /\ balance_cmd(ADMIN_TELEGRAM_ID, bal))
          => /\ ~find_usdt_balance(r_json(bal.body)).raised
             /\ find_usdt_balance(r_json(bal.body)).value
                   = ExpectedBalance(r_json(bal.body))]_vars

\* -------------------------------------------------------------- reconciler
\* The rule of the claim, on the balance extracted from the snapshot taken
\* at creation, the balance extracted from a fresh snapshot, and the amount.
Reconcile(previous, current, amount) ==
    IF previous = NoDecimal \/ current = NoDecimal THEN "inconclusive"
    ELSE IF current.int >= previous.int + amount.int THEN "deposit_confirmed"
    ELSE "deposit_not_detected"

\* The balance in the snapshot stored with escrow e.
PreviousBalance(e) ==
    IF e.deposit_snapshot = None THEN NoDecimal
    ELSE usdt_balance_of[e.deposit_snapshot].value

\* The balances a fresh snapshot can show, unknown included.
CurrentBalances ==
    {NoDecimal} \cup {usdt_balance_of[bal.body].value : bal \in BalanceShapes}

\* C22: when the admin confirms a paid escrow, a fresh snapshot is taken
\* and the outcome reported is the rule's: deposit_confirmed iff both
\* balances are known and current >= previous + amount, deposit_not_detected
\* iff both are known and current < previous + amount, inconclusive iff one
\* of them is unknown.
C22_ReconcilerOutcome ==
    [][\A id \in Ids :
          (escrows[id].status = "paid"
             /\ admin_confirm(ADMIN_TELEGRAM_ID, id))
          => /\ http' = "GET balance"
             /\ \E current \in CurrentBalances :
                   reply' = Reconcile(PreviousBalance(escrows[id]), current,
                                      safe_decimal(escrows[id].amount))]_vars

\* The step sent the admin the "Release Funds" prompt: only delivered does,
\* right after it answers with the delivered message.
ReleasePrompt == "delivered:delivered"

\* C24: delivered changes no escrow field and sends nothing to the
\* exchange; it issues the admin's release prompt exactly when the actor is
\* the seller of the escrow and the status is confirmed; so a prompt just
\* issued belongs to a confirmed escrow that has a seller.
C24_DeliveredOnlyPrompts ==
    /\ [][\A u \in Users, id \in EscrowIds :
             delivered(u, id) =>
                /\ escrows' = escrows
                /\ withdrawals' = withdrawals
                /\ http' = "none"
                /\ reply' = ReleasePrompt
                      <=> /\ id \in Ids
                          /\ u = escrows[id].seller_id
                          /\ escrows[id].status = "confirmed"]_vars
    /\ [](reply = ReleasePrompt
            => \E id \in Ids : /\ escrows[id].status = "confirmed"
                               /\ escrows[id].seller_id # NULL)

\* The seller of a paid and confirmed escrow has just confirmed delivery.
C24_Witness ==
    /\ reply = ReleasePrompt
    /\ \E id \in Ids : /\ escrows[id].status = "confirmed"
                       /\ escrows[id].paid_at # NULL
                       /\ escrows[id].seller_id \in Users
                       /\ escrows[id].seller_wallet # None

\* C25: in every reachable state seller_id is set exactly when
\* seller_wallet is set, and a seller_id that is set differs from buyer_id;
\* and no step clears either of them.
C25_SellerAndWalletTogether ==
    /\ [](\A id \in Ids :
             /\ escrows[id].seller_id # NULL
                   <=> escrows[id].seller_wallet # None
             /\ escrows[id].seller_id # NULL
                   => escrows[id].seller_id # escrows[id].buyer_id)
    /\ [][\A id \in Ids :
             escrows[id].seller_id # NULL
                => /\ escrows'[id].seller_id # NULL
                   /\ escrows'[id].seller_wallet # None]_vars

\* An escrow whose seller and wallet are set, after a wallet text was saved
\* and the escrow moved on.
C25_Witness ==
    \E id \in Ids : /\ escrows[id].seller_id \in Users \ {escrows[id].buyer_id}
                    /\ escrows[id].seller_wallet = WALLET_A
                    /\ escrows[id].status = "paid"

====
